---- MODULE Spec2Model ----
(***************************************************************************)
(* Model of bin/mpris_flac_recorder.py: the Recorder state machine that    *)
(* turns MPRIS PropertiesChanged notifications into the lifecycle of one   *)
(* ffmpeg child process, with minimum-duration filtering, URL dedupe and   *)
(* the status side-channel.                                                *)
(*                                                                         *)
(* Strings that the code edits (artist, title, file names) are sequences   *)
(* of one-character strings, so that strip/sanitize/unique_path are        *)
(* computed as the code computes them.  Opaque strings (track id, url,     *)
(* playback status) are TLA+ strings.  Python None is modelled per field   *)
(* by a value of the field's type that the program cannot produce.         *)
(* The tag arguments of the ffmpeg command line (album, track number,      *)
(* disc number) are not state of the recorder and are left out.            *)
(***************************************************************************)
EXTENDS Integers, Sequences, FiniteSets, TLC

VARIABLES
    pc,                  \* main(): "constructed" -> prime -> "running" -> shutdown -> "done"
    dedupe,              \* self.dedupe (configuration, fixed at construction)
    playback_status,     \* self.playback_status
    pending,             \* self.pending
    proc,                \* self.proc is a Popen object (TRUE) or None (FALSE)
    current_path,        \* self.current_path
    current_started_at,  \* self.current_started_at
    current_track_id,    \* self.current_track_id
    current_url,         \* self.current_url
    seen_urls,           \* self.seen_urls
    index_file,          \* lines of <out>/.spotify_index
    status_file,         \* content of recorder.status
    files,               \* the .flac paths that exist in the output directory
    live,                \* number of ffmpeg children spawned and not yet stopped
    now,                 \* time.time()
    player_md,           \* what the player answers to Get(..., "Metadata")
    index_writable,      \* whether .spotify_index can be appended to
    status_writable,     \* whether recorder.status can be written
    trace                \* what the most recent callback did (history)

vars == <<pc, dedupe, playback_status, pending, proc, current_path,
          current_started_at, current_track_id, current_url, seen_urls,
          index_file, status_file, files, live, now, player_md,
          index_writable, status_writable,
          trace>>

----------------------------------------------------------------------------
(* Bounds of the model *)

\* the clock is followed up to MaxTime
MaxTime == 3
\* --min-seconds, in clock ticks
MinSeconds == 2
\* the grace period of proc.wait(timeout=...), in clock ticks
GraceTimeout == 1
\* the output directory holds at most this many files (the disk is full then)
MaxFiles == 1

----------------------------------------------------------------------------
(* Values *)

NoneStr == "<None>"
NonePath == <<>>
NoneTime == 0

\* The recorder reads the clock at a start and at the finalize that follows,
\* and uses the difference of the two readings only.  The clock is therefore
\* read relative to an origin that moves with each start: a start reads Epoch.
Epoch == 1

Ws == {" ", "\t"}
ForbiddenChars == {"/", "\\", ":", "*", "?", "\"", "<", ">", "|"}
Unknown == <<"u", "n", "k", "n", "o", "w", "n">>
SanitizeMaxLen == 180

PlayerInterface == "org.mpris.MediaPlayer2.Player"
RootInterface == "org.mpris.MediaPlayer2"

\* PlaybackStatus values a notification or a Get can deliver
Statuses == {"Playing", "Paused", "Stopped", "Unknown"}

Md(trackid, artist, title, url) ==
    [trackid |-> trackid, artist |-> artist, title |-> title, url |-> url]

\* self.pending = {} at construction: every .get() yields nothing
EmptyPending == Md("", <<>>, <<>>, "")

\* The metadata the player can expose
Metadata ==
    { Md("A", <<"x">>, <<"a">>, "u1"),          \* track A
      Md("B", <<>>, <<>>, "u2"),                \* track B, title not yet known
      Md("", <<"x">>, <<"a", "/">>, "") }       \* a title without id or url

----------------------------------------------------------------------------
(* String helpers: str.strip, re.sub *)

RECURSIVE LStrip(_, _)
LStrip(s, cs) ==
    IF s # <<>> /\ Head(s) \in cs THEN LStrip(Tail(s), cs) ELSE s

RECURSIVE RStrip(_, _)
RStrip(s, cs) ==
    IF s # <<>> /\ s[Len(s)] \in cs THEN RStrip(SubSeq(s, 1, Len(s) - 1), cs) ELSE s

Strip(s, cs) == RStrip(LStrip(s, cs), cs)

\* re.sub(r"[cs]+", r, s): every maximal run of characters of cs becomes r
RECURSIVE SubRuns(_, _, _)
SubRuns(s, cs, r) ==
    IF s = <<>> THEN <<>>
    ELSE IF Head(s) \in cs THEN <<r>> \o SubRuns(LStrip(Tail(s), cs), cs, r)
    ELSE <<Head(s)>> \o SubRuns(Tail(s), cs, r)

Truncate(s, n) == IF Len(s) <= n THEN s ELSE SubSeq(s, 1, n)

sanitize(s) ==
    LET a == Strip(s, Ws)
        b == SubRuns(a, ForbiddenChars, "_")
        c == Strip(SubRuns(b, Ws, " "), Ws)
    IN IF c # <<>> THEN Truncate(c, SanitizeMaxLen) ELSE Unknown

----------------------------------------------------------------------------
(* Output paths *)

\* "<base>.flac" in the output directory
PlainPath(base) == base \o <<".flac">>

\* "<base> (i).flac" in the output directory
NumberedPath(base, i) == base \o <<" ", "(", ToString(i), ")", ".flac">>

\* FirstFree that does not look at the directory
FirstFreeUnchecked(base, i, disk) == NumberedPath(base, i)

RECURSIVE FirstFree(_, _, _)
FirstFree(base, i, disk) ==
    IF NumberedPath(base, i) \notin disk THEN NumberedPath(base, i)
    ELSE FirstFree(base, i + 1, disk)

unique_path(base0, disk) ==
    LET base == sanitize(base0)
    IN IF PlainPath(base) \notin disk THEN PlainPath(base)
       ELSE FirstFree(base, 2, disk)

\* f"{md['artist']} - {md['title']}".strip(" -")
TrackName(md) == Strip(md.artist \o <<" ", "-", " ">> \o md.title, {" ", "-"})

----------------------------------------------------------------------------
(* The recorder and its surroundings as one record, so that the methods   *)
(* can be composed the way the callbacks call them.                        *)

Self ==
    [dedupe |-> dedupe, playback_status |-> playback_status, pending |-> pending,
     proc |-> proc, current_path |-> current_path,
     current_started_at |-> current_started_at,
     current_track_id |-> current_track_id, current_url |-> current_url,
     seen_urls |-> seen_urls, index_file |-> index_file,
     status_file |-> status_file, files |-> files, live |-> live,
     now |-> now, player_md |-> player_md,
     index_writable |-> index_writable, status_writable |-> status_writable,
     trace |-> trace]

Becomes(s) ==
    /\ dedupe' = s.dedupe
    /\ playback_status' = s.playback_status
    /\ pending' = s.pending
    /\ proc' = s.proc
    /\ current_path' = s.current_path
    /\ current_started_at' = s.current_started_at
    /\ current_track_id' = s.current_track_id
    /\ current_url' = s.current_url
    /\ seen_urls' = s.seen_urls
    /\ index_file' = s.index_file
    /\ status_file' = s.status_file
    /\ files' = s.files
    /\ live' = s.live
    /\ now' = s.now
    /\ player_md' = s.player_md
    /\ index_writable' = s.index_writable
    /\ status_writable' = s.status_writable
    /\ trace' = s.trace

\* History of one callback, in order: the recordings it finalized ("final"),
\* the starts it attempted ("start") and the status writes it attempted
\* ("write").  It is empty after a step of the surroundings.
NewTrace == <<>>

Begin(s) == [s EXCEPT !.trace = NewTrace]

Log(s, event) == [s EXCEPT !.trace = Append(@, event)]

\* What the child does when a callback stops it: send_signal fails
\* ("sigfail"), or the child exits within the grace period of wait()
\* ("exited"), or the wait times out ("timeout").  wait: the ticks spent in
\* wait().
StopOutcomes == {"exited", "timeout", "sigfail"}
IOs ==
    {[stop |-> "exited", wait |-> w] : w \in 0 .. (GraceTimeout - 1)}
        \cup {[stop |-> "timeout", wait |-> GraceTimeout],
              [stop |-> "sigfail", wait |-> 0]}

\* The clock stays within the model's bound.
IOAllowed(io) == now + io.wait <= MaxTime

\* The stop outcomes a callback is tried with.  A callback stops a child
\* only if it begins with one held or starts one before its metadata part
\* (lines 284-285, then 296-298); otherwise it never reads the outcome, and
\* one value stands for all.
StopInputs(mayStop) == IF mayStop THEN IOs ELSE {[stop |-> "exited", wait |-> 0]}

----------------------------------------------------------------------------
(* Recorder methods *)

\* _write_status whose failing write holds the callback up for a tick
_write_statusBlocking(s, fields, io) ==
    LET logged == Log(s, [kind |-> "write", rec |-> fields])
    IN IF s.status_writable THEN [logged EXCEPT !.status_file = fields]
       ELSE [logged EXCEPT !.now = @ + 1]

\* _write_status that never reaches the file
_write_statusDropped(s, fields, io) ==
    Log(s, [kind |-> "write", rec |-> fields])

_write_status(s, fields, io) ==
    LET logged == Log(s, [kind |-> "write", rec |-> fields])
    IN IF s.status_writable THEN [logged EXCEPT !.status_file = fields] ELSE logged

\* the lines _load_index keeps (index lines hold no surrounding blanks here)
_load_index(lines) == {lines[i] : i \in {j \in DOMAIN lines : lines[j] # ""}}

\* _append_index that adds the url to the hot set after the file was written
_append_indexFileFirst(s, url, io) ==
    IF url = "" \/ ~s.index_writable THEN s
    ELSE [s EXCEPT !.seen_urls = @ \cup {url}, !.index_file = Append(@, url)]

_append_index(s, url, io) ==
    IF url = "" THEN s
    ELSE LET hot == [s EXCEPT !.seen_urls = @ \cup {url}]
         IN IF s.index_writable THEN [hot EXCEPT !.index_file = Append(@, url)] ELSE hot

get_metadata(s) == s.player_md

\* Python truth value of an optional string
Truthy(x) == x # NoneStr /\ x # ""

\* Killed without the except clause: no escalation to kill()
KilledNever(io) == FALSE

\* lines 164-165: kill() runs when send_signal or wait raised
Killed(io) == io.stop # "exited"

\* StopChild without the finally clause: self.proc is not reset
StopChildKeepsProc(s, io) ==
    [s EXCEPT !.live = IF io.stop = "exited" \/ Killed(io) THEN @ - 1 ELSE @,
              !.now = @ + io.wait]

\* lines 161-167: SIGINT, wait up to the grace period, else kill; proc = None.
\* The child is gone when it exited by itself or was killed.
StopChild(s, io) ==
    [s EXCEPT !.proc = FALSE,
              !.live = IF io.stop = "exited" \/ Killed(io) THEN @ - 1 ELSE @,
              !.now = @ + io.wait]

\* The origin of the clock moves: the next reading of time.time() is Epoch.
\* Done where a recording starts, and where one ends (no reading of the
\* clock is kept while Idle).
RebaseClock(s) == [s EXCEPT !.now = Epoch]

\* TooShort with <= in place of <
TooShortOrEqual(dur) == dur <= MinSeconds

\* line 173
TooShort(dur) == dur < MinSeconds

\* ShouldIndex without the test of kept
ShouldIndexDropped(s, kept) == s.dedupe /\ Truthy(s.current_url)

\* line 184
ShouldIndex(s, kept) == kept /\ s.dedupe /\ Truthy(s.current_url)

\* ClearContext that forgets the path and the start time
ClearContextIdsOnly(s) ==
    [s EXCEPT !.current_track_id = NoneStr,
              !.current_url = NoneStr]

\* lines 196-199
ClearContext(s) ==
    [s EXCEPT !.current_path = NonePath,
              !.current_started_at = NoneTime,
              !.current_track_id = NoneStr,
              !.current_url = NoneStr]

IdleStatus(s, kept, dur) ==
    [STATE |-> "idle",
     LAST_RESULT |-> IF kept THEN "KEEP" ELSE "DROP",
     LAST_DURATION |-> dur,
     LAST_FILE |-> s.current_path,
     LAST_SPOTIFY_URL |-> IF Truthy(s.current_url) THEN s.current_url ELSE ""]

_finalize(s, io) ==
    IF ~s.proc THEN s
    ELSE
      LET s1 == StopChild(s, io)
          timed == s1.current_path # NonePath /\ s1.current_started_at # NoneTime
          dur == IF timed THEN s1.now - s1.current_started_at ELSE 0
          drop == timed /\ TooShort(dur)
          kept == timed /\ ~TooShort(dur)
          s2 == IF drop THEN [s1 EXCEPT !.files = @ \ {s1.current_path}] ELSE s1
          s3 == IF ShouldIndex(s2, kept) THEN _append_index(s2, s2.current_url, io) ELSE s2
          entry == [kind |-> "final",
                    path |-> s.current_path, url |-> s.current_url,
                    trackid |-> s.current_track_id, dur |-> dur, kept |-> kept,
                    stop |-> io.stop, waited |-> io.wait, killed |-> Killed(io),
                    existed |-> s.current_path \in s.files,
                    exists |-> s.current_path \in s3.files,
                    added |-> s3.seen_urls \ s.seen_urls,
                    appended |-> Len(s3.index_file) - Len(s.index_file)]
          s4 == _write_status(Log(s3, entry), IdleStatus(s3, kept, dur), io)
      IN ClearContext(RebaseClock(s4))

\* IsDuplicate that consults the index file in place of the hot set
IsDuplicateOnDisk(s, url) ==
    s.dedupe /\ url # "" /\ url \in _load_index(s.index_file)

\* IsDuplicate that never finds the url
IsDuplicateNever(s, url) == FALSE

\* line 207
IsDuplicate(s, url) == s.dedupe /\ url # "" /\ url \in s.seen_urls

_start(s, md, io) ==
    LET url == md.url
        artist == Strip(md.artist, Ws)
        title == Strip(md.title, Ws)
        attempt(spawned, path, after) ==
            [kind |-> "start",
             md |-> md, spawned |-> spawned, path |-> path, held |-> s.proc,
             seen |-> url \in s.seen_urls, existed |-> path \in s.files,
             same |-> after.seen_urls = s.seen_urls
                      /\ after.index_file = s.index_file
                      /\ after.files = s.files]
    IN IF IsDuplicate(s, url)
       THEN LET s1 == _write_status(Log(s, attempt(FALSE, NonePath, s)),
                        [STATE |-> "skipped", ARTIST |-> artist, TITLE |-> title,
                         SPOTIFY_URL |-> url], io)
            IN [s1 EXCEPT !.current_track_id = md.trackid,
                          !.current_url = url]
       ELSE LET out_path == unique_path(TrackName(md), s.files)
                s0 == RebaseClock(s)
                s1 == [s0 EXCEPT !.proc = TRUE,
                                !.live = @ + 1,
                                !.current_path = out_path,
                                !.current_started_at = s0.now,
                                !.current_track_id = md.trackid,
                                !.current_url = url]
            IN _write_status(Log(s1, attempt(TRUE, out_path, s1)),
                        [STATE |-> "recording", ARTIST |-> artist, TITLE |-> title,
                         FILE |-> out_path, STARTED_AT |-> s1.current_started_at,
                         SPOTIFY_URL |-> url], io)

_ensure_started(s, io) ==
    IF s.playback_status # "Playing" \/ s.proc THEN s
    ELSE LET fetch == s.pending.title = <<>>
             md == IF fetch THEN get_metadata(s) ELSE s.pending
             s1 == IF fetch THEN [s EXCEPT !.pending = md] ELSE s
         IN IF md.title # <<>> THEN _start(s1, md, io) ELSE s1

\* StatusPart that finalizes on Paused and forgets Stopped
StatusPartPausedOnly(s, st, io) ==
    LET s1 == [s EXCEPT !.playback_status = st]
    IN IF st = "Paused" THEN _finalize(s1, io)
       ELSE IF st = "Playing" THEN _ensure_started(s1, io)
       ELSE s1

\* lines 280-285
StatusPart(s, st, io) ==
    LET s1 == [s EXCEPT !.playback_status = st]
    IN IF st \in {"Paused", "Stopped"} THEN _finalize(s1, io)
       ELSE IF st = "Playing" THEN _ensure_started(s1, io)
       ELSE s1

\* TrackAdvance that starts the new recording without stopping the old one
TrackAdvanceNoFinalize(s, md, io) == _start(s, md, io)

\* TrackAdvance that stops the old recording and forgets to start the new one
TrackAdvanceNoStart(s, md, io) == _finalize(s, io)

\* lines 296-298
TrackAdvance(s, md, io) == _start(_finalize(s, io), md, io)

\* MetadataPart without the test of md["trackid"] for emptiness at line 296
MetadataPartNoEmptyGuard(s, io) ==
    LET md == get_metadata(s)
        s1 == [s EXCEPT !.pending = md]
    IN IF s1.playback_status # "Playing" THEN s1
       ELSE IF ~s1.proc THEN _ensure_started(s1, io)
       ELSE IF md.trackid # s1.current_track_id
            THEN TrackAdvance(s1, md, io)
       ELSE s1

\* MetadataPart without the early return at lines 291-292
MetadataPartNoStatusTest(s, io) ==
    LET md == get_metadata(s)
        s1 == [s EXCEPT !.pending = md]
    IN IF ~s1.proc THEN _ensure_started(s1, io)
       ELSE IF md.trackid # "" /\ md.trackid # s1.current_track_id
            THEN TrackAdvance(s1, md, io)
       ELSE s1

\* lines 287-298
MetadataPart(s, io) ==
    LET md == get_metadata(s)
        s1 == [s EXCEPT !.pending = md]
    IN IF s1.playback_status # "Playing" THEN s1
       ELSE IF ~s1.proc THEN _ensure_started(s1, io)
       ELSE IF md.trackid # "" /\ md.trackid # s1.current_track_id
            THEN TrackAdvance(s1, md, io)
       ELSE s1

\* on_properties_changed that reads the metadata only when the notification
\* carries no playback status
on_properties_changedElif(s, interface, changed, st, io) ==
    IF interface # PlayerInterface THEN s
    ELSE IF "PlaybackStatus" \in changed THEN StatusPart(s, st, io)
    ELSE IF "Metadata" \in changed THEN MetadataPart(s, io)
    ELSE s

\* changed: the keys of the notification; st: the value under "PlaybackStatus"
on_properties_changed(s, interface, changed, st, io) ==
    IF interface # PlayerInterface THEN s
    ELSE LET s1 == IF "PlaybackStatus" \in changed THEN StatusPart(s, st, io) ELSE s
         IN IF "Metadata" \in changed THEN MetadataPart(s1, io) ELSE s1

\* prime that records status and metadata and leaves the start to the first
\* notification
primeNoStart(s, st, io) ==
    [s EXCEPT !.playback_status = st, !.pending = get_metadata(s)]

\* st: what the player answers to Get(..., "PlaybackStatus")
prime(s, st, io) ==
    LET s1 == [s EXCEPT !.playback_status = st, !.pending = get_metadata(s)]
    IN IF st = "Playing" THEN _ensure_started(s1, io) ELSE s1

\* shutdown that leaves the recording as it is
shutdownNoFinalize(s, io) == s

shutdown(s, io) == _finalize(s, io)

----------------------------------------------------------------------------
(* Construction *)

\* what .spotify_index can hold when the recorder is launched
InitialIndexes == {<<>>, <<"u1">>}

\* what the output directory can hold when the recorder is launched
InitialDirs == {{}, {PlainPath(<<"x", " ", "-", " ", "a">>)}}

\* _write_status(STATE="idle") at the end of __init__
InitialStatus(writable) == IF writable THEN [STATE |-> "idle"] ELSE [STATE |-> "<absent>"]

Init ==
    /\ pc = "constructed"
    /\ dedupe \in BOOLEAN
    /\ playback_status = NoneStr
    /\ pending = EmptyPending
    /\ proc = FALSE
    /\ current_path = NonePath
    /\ current_started_at = NoneTime
    /\ current_track_id = NoneStr
    /\ current_url = NoneStr
    /\ index_file \in IF dedupe THEN InitialIndexes ELSE {<<>>}
    /\ seen_urls = IF dedupe THEN _load_index(index_file) ELSE {}
    /\ index_writable \in IF dedupe THEN BOOLEAN ELSE {TRUE}
    /\ status_writable \in BOOLEAN
    /\ status_file = InitialStatus(status_writable)
    /\ files \in InitialDirs
    /\ live = 0
    /\ now = Epoch
    /\ player_md \in Metadata
    /\ trace = NewTrace

----------------------------------------------------------------------------
(* main(): prime, then one callback per notification, then shutdown *)

Prime ==
    /\ pc = "constructed"
    /\ \E st \in Statuses, io \in StopInputs(proc) :
          /\ IOAllowed(io)
          /\ Becomes(prime(Begin(Self), st, io))
    /\ pc' = "running"

StatusChanged ==
    /\ pc = "running"
    /\ \E st \in Statuses, io \in StopInputs(proc) :
          /\ IOAllowed(io)
          /\ Becomes(on_properties_changed(Begin(Self), PlayerInterface,
                                           {"PlaybackStatus"}, st, io))
    /\ UNCHANGED pc

MetadataChanged ==
    /\ pc = "running"
    /\ \E io \in StopInputs(proc) :
          /\ IOAllowed(io)
          /\ Becomes(on_properties_changed(Begin(Self), PlayerInterface,
                                           {"Metadata"}, NoneStr, io))
    /\ UNCHANGED pc

StatusAndMetadataChanged ==
    /\ pc = "running"
    /\ \E st \in Statuses : \E io \in StopInputs(proc \/ st = "Playing") :
          /\ IOAllowed(io)
          /\ Becomes(on_properties_changed(Begin(Self), PlayerInterface,
                                           {"PlaybackStatus", "Metadata"}, st, io))
    /\ UNCHANGED pc

OtherInterfaceChanged ==
    /\ pc = "running"
    /\ \E st \in {"Playing", "Paused"} :
          \E io \in StopInputs(FALSE) :
          /\ Becomes(on_properties_changed(Begin(Self), RootInterface,
                                           {"PlaybackStatus", "Metadata"}, st, io))
    /\ UNCHANGED pc

Shutdown ==
    /\ pc = "running"
    /\ \E io \in StopInputs(proc) :
          /\ IOAllowed(io)
          /\ Becomes(shutdown(Begin(Self), io))
    /\ pc' = "done"

----------------------------------------------------------------------------
(* The surroundings *)

Surroundings(s) == pc' = pc /\ Becomes(Begin(s))

\* time passes while a recording runs
Tick ==
    /\ proc
    /\ now < MaxTime
    /\ Surroundings([Self EXCEPT !.now = @ + 1])

\* the player moves to other metadata
PlayerUpdate ==
    /\ pc # "done"
    /\ \E md \in Metadata \ {player_md} :
          Surroundings([Self EXCEPT !.player_md = md])

\* the running ffmpeg child opens its output file
ChildCreatesFile ==
    /\ proc
    /\ live > 0
    /\ current_path \notin files
    /\ Cardinality(files) < MaxFiles
    /\ Surroundings([Self EXCEPT !.files = @ \cup {current_path}])

Next ==
    \/ Prime
    \/ StatusChanged
    \/ MetadataChanged
    \/ StatusAndMetadataChanged
    \/ OtherInterfaceChanged
    \/ Shutdown
    \/ Tick
    \/ PlayerUpdate
    \/ ChildCreatesFile

Spec == Init /\ [][Next]_vars

----------------------------------------------------------------------------
(* unique_path on its own: a directory drawn from a pool of names, and     *)
(* requests for a path, each returned path being created before the next   *)
(* request.                                                                *)

\* requests per run
MaxRequests == 3
\* files in the directory at the first request
MaxDirFiles == 3

\* names requested: a plain one, one that looks like a numbered one, and one
\* that sanitize rewrites
PathBases == {<<"a">>, <<"a", " ", "(", "2", ")">>, <<" ", "a", ":", "/">>}

PathPool ==
    UNION {{PlainPath(sanitize(b)), NumberedPath(sanitize(b), 2),
            NumberedPath(sanitize(b), 3)} : b \in PathBases}

PathInit ==
    /\ pc = "paths"
    /\ dedupe = FALSE
    /\ playback_status = NoneStr
    /\ pending = EmptyPending
    /\ proc = FALSE
    /\ current_path = NonePath
    /\ current_started_at = NoneTime
    /\ current_track_id = NoneStr
    /\ current_url = NoneStr
    /\ index_file = <<>>
    /\ seen_urls = {}
    /\ index_writable = TRUE
    /\ status_writable = TRUE
    /\ status_file = InitialStatus(TRUE)
    /\ files \in {d \in SUBSET PathPool : Cardinality(d) <= MaxDirFiles}
    /\ live = 0
    /\ now = Epoch
    /\ player_md = EmptyPending
    /\ trace = NewTrace

RequestPath ==
    /\ pc = "paths"
    /\ Len(trace) < MaxRequests
    /\ \E base \in PathBases :
          LET p == unique_path(base, files)
          IN /\ files' = files \cup {p}
             /\ trace' = Append(trace, [kind |-> "path", base |-> base, path |-> p,
                                        disk |-> files])
    /\ UNCHANGED <<pc, dedupe, playback_status, pending, proc, current_path,
                   current_started_at, current_track_id, current_url, seen_urls,
                   index_file, status_file, live, now, player_md,
                   index_writable, status_writable>>

PathNext == RequestPath

PathSpec == PathInit /\ [][PathNext]_vars

----------------------------------------------------------------------------
(* Properties *)

FinalEvents == {trace[i] : i \in {j \in DOMAIN trace : trace[j].kind = "final"}}
StartEvents == {trace[i] : i \in {j \in DOMAIN trace : trace[j].kind = "start"}}

\* C1: a child process is held exactly when the recording's output path and
\* start time are set, and while a child is held the track id and the url of
\* the context are set too.
C1_ContextIffChild ==
    /\ proc => /\ current_path # NonePath
               /\ current_started_at # NoneTime
               /\ current_track_id # NoneStr
               /\ current_url # NoneStr
    /\ ~proc => /\ current_path = NonePath
                /\ current_started_at = NoneTime

\* a callback has just started a recording
C1_Witness ==
    /\ pc = "running"
    /\ proc
    /\ current_path # NonePath
    /\ \E e \in StartEvents : e.spawned

\* C2: a child process is held only while the playback status is Playing.
C2_RecordingOnlyWhilePlaying == proc => playback_status = "Playing"

\* C3: no callback spawns a child for metadata whose title is empty.
C3_NoSpawnWithoutTitle ==
    \A e \in StartEvents : e.spawned => e.md.title # <<>>

\* C4: at most one child process is alive, it is the one the recorder holds,
\* and every spawn happens while no child is held.
C4_AtMostOneChild ==
    /\ live <= 1
    /\ proc <=> live = 1
    /\ \A e \in StartEvents : e.spawned => ~e.held

\* a callback has stopped one child and spawned the next
C4_Witness ==
    /\ FinalEvents # {}
    /\ \E e \in StartEvents : e.spawned
    /\ live = 1

\* C5: a finalize keeps the recording exactly when its duration is at least
\* the minimum; a dropped recording's file is gone afterwards, a kept
\* recording's file is left as it was.
C5_KeepOrDrop ==
    \A e \in FinalEvents :
        /\ e.kept <=> e.dur >= MinSeconds
        /\ e.kept => (e.exists <=> e.existed) /\ (e.existed => e.path \in files)
        /\ ~e.kept => ~e.exists /\ e.path \notin files

\* a recording one tick too short has been dropped and its file removed
C5_Witness ==
    \E e \in FinalEvents :
        ~e.kept /\ e.dur = MinSeconds - 1 /\ e.existed /\ ~e.exists

\* C6: with dedupe on, a start attempt for a non-empty url that is in the
\* index spawns no child, creates no file and leaves the index as it is.
C6_DuplicateSkipped ==
    \A e \in StartEvents :
        (dedupe /\ e.md.url # "" /\ e.seen) => (~e.spawned /\ e.same)

\* a start was skipped for a url the index did not hold at launch
C6_Witness ==
    \E e \in StartEvents :
        dedupe /\ e.seen /\ ~e.spawned /\ e.md.url = "u2"

\* C7: a url enters the index (the set in memory or the file) only in a step
\* that finalizes a recording of that url as kept.
C7_IndexedOnlyWhenKept ==
    [][/\ \A u \in seen_urls' \ seen_urls :
             \E e \in FinalEvents' :
                 e.kept /\ e.url = u /\ e.dur >= MinSeconds /\ e.added = {u}
       /\ \/ index_file' = index_file
          \/ \E e \in FinalEvents' :
                 e.kept /\ e.dur >= MinSeconds /\ index_file' = Append(index_file, e.url)
      ]_vars

\* a kept recording has just put its url into the index
C7_Witness ==
    \E e \in FinalEvents : e.kept /\ e.added = {e.url} /\ e.appended = 1

\* C8: a second finalize right after a finalize changes nothing and attempts
\* nothing: no deletion, no index entry, no status write.
C8_FinalizeIdempotent ==
    \A io1 \in IOs, io2 \in IOs :
        LET once == Begin(_finalize(Self, io1))
        IN _finalize(once, io2) = once

\* a recording with a file on disk that a finalize would drop
C8_Witness ==
    /\ proc
    /\ current_path \in files
    /\ now - current_started_at < MinSeconds

\* C9: a Metadata notification that arrives while Playing and recording, with
\* a non-empty track id other than the recording's, finalizes the recording,
\* writes one idle status record, attempts the start of the new track and
\* writes its status record; the new track is recording afterwards unless it
\* was skipped as a duplicate.
C9_TrackAdvance ==
    [][(/\ playback_status = "Playing"
        /\ proc
        /\ player_md.trackid # ""
        /\ player_md.trackid # current_track_id
        /\ MetadataChanged)
       =>
       (/\ Len(trace') = 4
        /\ trace'[1].kind = "final"
        /\ trace'[1].path = current_path
        /\ trace'[1].trackid = current_track_id
        /\ trace'[1].kept <=> trace'[1].dur >= MinSeconds
        /\ trace'[2].kind = "write"
        /\ trace'[2].rec.STATE = "idle"
        /\ trace'[2].rec.LAST_FILE = current_path
        /\ trace'[3].kind = "start"
        /\ trace'[3].md = player_md
        /\ trace'[4].kind = "write"
        /\ status_writable => status_file' = trace'[4].rec
        /\ trace'[3].spawned <=>
              ~(dedupe /\ player_md.url # "" /\ player_md.url \in seen_urls')
        /\ IF trace'[3].spawned
           THEN /\ proc'
                /\ current_track_id' = player_md.trackid
                /\ current_path' # NonePath
                /\ trace'[4].rec.STATE = "recording"
                /\ trace'[4].rec.FILE = current_path'
           ELSE /\ ~proc'
                /\ trace'[4].rec.STATE = "skipped")
      ]_vars

\* a callback has finalized one recording and started the next
C9_Witness ==
    /\ Len(trace) = 4
    /\ trace[1].kind = "final"
    /\ trace[3].kind = "start"
    /\ trace[3].spawned
    /\ trace[3].md.trackid # trace[1].trackid
    /\ proc
    /\ current_track_id = trace[3].md.trackid

PathEvents == {trace[i] : i \in {j \in DOMAIN trace : trace[j].kind = "path"}}

\* C10: unique_path returns a path that is not in the directory: the plain
\* one when it is free, else the numbered one with the smallest free number
\* from 2 on; the paths returned for successive requests differ.
C10_UniquePath ==
    /\ \A e \in PathEvents :
          LET base == sanitize(e.base)
          IN /\ e.path \notin e.disk
             /\ e.path \in files
             /\ IF PlainPath(base) \notin e.disk
                THEN e.path = PlainPath(base)
                ELSE \E i \in 2 .. (Cardinality(e.disk) + 2) :
                        /\ e.path = NumberedPath(base, i)
                        /\ \A j \in 2 .. (i - 1) : NumberedPath(base, j) \in e.disk
    /\ \A i \in DOMAIN trace, j \in DOMAIN trace :
          (i # j /\ trace[i].kind = "path" /\ trace[j].kind = "path")
              => trace[i].path # trace[j].path

\* the same name was requested three times and the third path is numbered
C10_Witness ==
    /\ Len(trace) = 3
    /\ trace[1].base = trace[2].base
    /\ trace[2].base = trace[3].base
    /\ \E i \in 3 .. 4 : trace[3].path = NumberedPath(sanitize(trace[3].base), i)

\* C11: while the playback status the recorder last handled is Paused or
\* Stopped, no child is held or alive and the recording's path and start
\* time are cleared, whatever the state was before the notification; and
\* when a callback kept a recording that has a url, with deduplication on,
\* that url is in the index of seen urls when the callback returns.
C11_PauseStopFinalizes ==
    /\ playback_status \in {"Paused", "Stopped"}
          => /\ ~proc
             /\ live = 0
             /\ current_path = NonePath
             /\ current_started_at = NoneTime
    /\ \A e \in FinalEvents :
          (e.kept /\ dedupe /\ Truthy(e.url)) => e.url \in seen_urls

\* Paused or Stopped has just ended a recording that was kept and indexed
C11_Witness ==
    /\ playback_status \in {"Paused", "Stopped"}
    /\ ~proc
    /\ dedupe
    /\ \E e \in FinalEvents : e.kept /\ e.added = {e.url} /\ e.url \in seen_urls

\* C12: a Metadata notification that arrives while Playing and recording,
\* with a track id that is empty or equal to the recording's, updates the
\* pending metadata and nothing else: the child, the recording's context,
\* the index of seen urls, the directory and the status record stay as they
\* are, and no status write is attempted.
C12_SameTrackNoChange ==
    [][(/\ playback_status = "Playing"
        /\ proc
        /\ player_md.trackid \in {"", current_track_id}
        /\ MetadataChanged)
       =>
       (/\ pending' = player_md
        /\ trace' = NewTrace
        /\ UNCHANGED <<playback_status, proc, live, now,
                       current_path, current_started_at,
                       current_track_id, current_url,
                       seen_urls, index_file, files, status_file>>)
      ]_vars

\* a recording of one track goes on after metadata without a track id arrived
C12_Witness ==
    /\ playback_status = "Playing"
    /\ proc
    /\ Truthy(current_track_id)
    /\ pending.trackid = ""
    /\ pending = player_md
    /\ trace = NewTrace

\* C13: a Metadata notification that arrives while the playback status is
\* not Playing updates the pending metadata and nothing else: the child, the
\* recording's context, the index of seen urls, the directory and the status
\* record stay as they are, and no status write is attempted.
C13_NotPlayingOnlyPending ==
    [][(/\ playback_status # "Playing"
        /\ player_md' = player_md     \* no callback changes it
        /\ MetadataChanged)
       =>
       (/\ pending' = player_md
        /\ trace' = NewTrace
        /\ UNCHANGED <<playback_status, proc, live, now,
                       current_path, current_started_at,
                       current_track_id, current_url,
                       seen_urls, index_file, files, status_file>>)
      ]_vars

\* paused after a recording of "u1", the pending metadata is another track's
C13_Witness ==
    /\ playback_status = "Paused"
    /\ ~proc
    /\ "LAST_SPOTIFY_URL" \in DOMAIN status_file
    /\ status_file.STATE = "idle"
    /\ status_file.LAST_SPOTIFY_URL = "u1"
    /\ pending.url = "u2"
    /\ pending = player_md
    /\ trace = NewTrace

\* C14: with deduplication on, Playing, no child held and the last-seen track
\* id set by a skipped start, a Metadata notification with that same track
\* id makes no new start attempt and writes no status record.
C14_NoRetryAfterSkip ==
    [][(/\ dedupe
        /\ playback_status = "Playing"
        /\ ~proc
        /\ Truthy(current_track_id)
        /\ player_md.trackid = current_track_id
        /\ MetadataChanged)
       =>
       (/\ trace' = NewTrace
        /\ UNCHANGED status_file)
      ]_vars

\* C15: once primed, and until shutdown, Playing with no child held occurs
\* only when the pending metadata has an empty title, or deduplication is on
\* and the pending url is in the index of seen urls; and a start attempt
\* spawns no child only in the second case.
C15_StartRule ==
    /\ (pc = "running" /\ playback_status = "Playing" /\ ~proc)
          => \/ pending.title = <<>>
             \/ dedupe /\ pending.url # "" /\ pending.url \in seen_urls
    /\ \A e \in StartEvents :
          ~e.spawned => dedupe /\ e.md.url # "" /\ e.seen

\* Playing and idle after the start of a titled track was skipped
C15_Witness ==
    /\ pc = "running"
    /\ playback_status = "Playing"
    /\ ~proc
    /\ pending.title # <<>>
    /\ pending.url \in seen_urls
    /\ \E e \in StartEvents : ~e.spawned /\ e.md = pending

\* C16: after shutdown no child is held or alive, the recording's path and
\* start time are cleared, and when shutdown kept a recording that has a url,
\* with deduplication on, that url is in the index of seen urls (and in the
\* index file when it can be written).
C16_ShutdownFinalizes ==
    pc = "done"
       => /\ ~proc
          /\ live = 0
          /\ current_path = NonePath
          /\ current_started_at = NoneTime
          /\ \A e \in FinalEvents :
                (e.kept /\ dedupe /\ Truthy(e.url))
                   => /\ e.url \in seen_urls
                      /\ index_writable => e.url \in _load_index(index_file)

\* shutdown has ended a recording that was kept and indexed
C16_Witness ==
    /\ pc = "done"
    /\ dedupe
    /\ \E e \in FinalEvents : e.kept /\ e.added = {e.url} /\ e.appended = 1

\* C17: every finalize of a held child waits at most the grace period and
\* kills the child exactly when sending the signal failed or the wait timed
\* out, a timed out wait having lasted the whole grace period; when the
\* callback returns, a child is alive only if the recorder holds it.
C17_GracefulThenForced ==
    /\ \A e \in FinalEvents :
          /\ e.waited <= GraceTimeout
          /\ e.killed <=> e.stop \in {"timeout", "sigfail"}
          /\ e.stop = "timeout" => e.waited = GraceTimeout
          /\ e.stop = "sigfail" => e.waited = 0
    /\ ~proc => live = 0
    /\ (FinalEvents # {} /\ \A e \in StartEvents : ~e.spawned) => ~proc

\* a finalize has killed a child that did not exit within the grace period
C17_Witness ==
    /\ ~proc
    /\ live = 0
    /\ \E e \in FinalEvents : e.stop = "timeout" /\ e.killed /\ e.waited = GraceTimeout

\* C18: when the index file cannot be written, a finalize that keeps a
\* recording with a url still completes (the idle status write follows, and
\* the callback that ends with it leaves no child and no context), the url
\* is in the index of seen urls although the file did not grow, and every
\* later start attempt for a seen url is skipped.
C18_IndexWriteFailure ==
    (dedupe /\ ~index_writable)
       => /\ \A i \in DOMAIN trace :
                (trace[i].kind = "final" /\ trace[i].kept /\ Truthy(trace[i].url))
                   => /\ trace[i].appended = 0
                      /\ trace[i].url \in seen_urls
                      /\ i < Len(trace)
                      /\ trace[i + 1].kind = "write"
                      /\ trace[i + 1].rec.STATE = "idle"
                      /\ i + 1 = Len(trace)
                            => /\ ~proc
                               /\ live = 0
                               /\ current_path = NonePath
                               /\ current_started_at = NoneTime
                               /\ current_track_id = NoneStr
                               /\ current_url = NoneStr
          /\ \A e \in StartEvents :
                (e.md.url # "" /\ e.seen) => ~e.spawned /\ e.same

\* a start was skipped for a url that only the in-memory index holds
C18_Witness ==
    /\ dedupe
    /\ ~index_writable
    /\ \E e \in StartEvents :
          /\ ~e.spawned
          /\ e.md.url \in seen_urls
          /\ e.md.url \notin _load_index(index_file)

\* the recorder without its status file
HideStatus(s) ==
    [s EXCEPT !.status_file = InitialStatus(FALSE), !.status_writable = FALSE]

\* the recorder in the run where status writes have the other outcome
OtherStatusRun(s) ==
    [s EXCEPT !.status_file = InitialStatus(~s.status_writable),
              !.status_writable = ~@]

\* C19: every callback, taken from the same recorder state once with status
\* writes succeeding and once with them failing, ends in the same state of
\* playback status, pending metadata, child, context, index, directory and
\* clock, and attempts the same status writes.  (The two runs are compared
\* from the state of the run whose writes succeed, once per recorder state:
\* a callback starts with an empty log, and a notification of another
\* interface leads to the state with the log empty.)
C19_StatusWritesIrrelevant ==
    LET here == Self
        there == OtherStatusRun(here)
        Same(a, b) == HideStatus(a) = HideStatus(b)
        opc(s, changed, st, io) ==
            on_properties_changed(s, PlayerInterface, changed, st, io)
    IN (status_writable /\ trace = NewTrace)
          => /\ pc = "constructed"
                   => \A st \in Statuses, io \in StopInputs(proc) :
                         Same(prime(there, st, io), prime(here, st, io))
             /\ pc = "running"
                   => /\ \A io \in StopInputs(proc) :
                            /\ Same(shutdown(there, io), shutdown(here, io))
                            /\ Same(opc(there, {"Metadata"}, NoneStr, io),
                                    opc(here, {"Metadata"}, NoneStr, io))
                            /\ \A st \in Statuses :
                                  Same(opc(there, {"PlaybackStatus"}, st, io),
                                       opc(here, {"PlaybackStatus"}, st, io))
                      /\ \A st \in Statuses : \A io \in StopInputs(proc \/ st = "Playing") :
                            Same(opc(there, {"PlaybackStatus", "Metadata"}, st, io),
                                 opc(here, {"PlaybackStatus", "Metadata"}, st, io))

\* a callback whose status write failed has started a recording
C19_Witness ==
    /\ ~status_writable
    /\ proc
    /\ status_file = InitialStatus(FALSE)
    /\ \E i \in DOMAIN trace :
          trace[i].kind = "write" /\ trace[i].rec.STATE = "recording"

\* C20: a notification that carries both the playback status and the
\* metadata leaves the recorder in the state that the same status alone,
\* followed at once by the same metadata alone, leaves it in, and makes the
\* same start, finalize and status write attempts in the same order.  (As
\* for C19, the comparison is made where the log is empty.)
C20_CoalescedEqualsSplit ==
    (pc = "running" /\ trace = NewTrace)
       => \A st \in Statuses, io \in IOs :
             LET both == on_properties_changed(Self, PlayerInterface,
                             {"PlaybackStatus", "Metadata"}, st, io)
                 first == on_properties_changed(Self, PlayerInterface,
                              {"PlaybackStatus"}, st, io)
                 second == on_properties_changed(Begin(first), PlayerInterface,
                               {"Metadata"}, st, io)
             IN both = [second EXCEPT !.trace = first.trace \o @]

\* one notification has started the pending track and advanced to the
\* player's track
C20_Witness ==
    /\ Len(trace) = 6
    /\ trace[1].kind = "start"
    /\ trace[1].spawned
    /\ trace[3].kind = "final"
    /\ trace[5].kind = "start"
    /\ trace[5].md = player_md

\* C21: once primed and until shutdown, while Playing with a child held and
\* a pending metadata that has a track id, the recording's track id is the
\* pending one.
C21_RecordingMatchesPending ==
    (pc = "running" /\ playback_status = "Playing" /\ proc /\ pending.trackid # "")
       => current_track_id = pending.trackid

\* the urls of the index file, which _load_index reads at construction
Persisted == _load_index(index_file)

\* C22: in no step does the index of seen urls lose an entry; the index file
\* grows by at most one line per finalize, only at its end, and the line
\* appended is a url that was neither in the index of seen urls nor in the
\* file; so the file never holds a url twice.
C22_NoDuplicateIndexEntries ==
    [][/\ seen_urls \subseteq seen_urls'
       /\ Len(index_file') >= Len(index_file)
       /\ SubSeq(index_file', 1, Len(index_file)) = index_file
       /\ Len(index_file') <= Len(index_file) + Cardinality(FinalEvents')
       /\ \A i \in (Len(index_file) + 1) .. Len(index_file') :
             /\ index_file'[i] \notin seen_urls
             /\ index_file'[i] \notin Persisted
             /\ \A j \in 1 .. (i - 1) : index_file'[j] # index_file'[i]
      ]_vars

\* a start was skipped for the url that this session appended to the file
C22_Witness ==
    /\ dedupe
    /\ Len(index_file) = 2
    /\ index_file[1] # index_file[2]
    /\ \E e \in StartEvents : ~e.spawned /\ e.md.url = index_file[2]

\* C23: when the status file can be written, its state tag is "recording"
\* exactly while a child is held and "idle" or "skipped" otherwise; every
\* finalize of a held child is followed at once by a write of an idle
\* record, every start attempt by a write of a recording record when it
\* spawned and of a skipped record when it did not, and the file shows the
\* last record written by the callback.
C23_StatusAgrees ==
    /\ status_writable
          => /\ status_file.STATE = "recording" <=> proc
             /\ ~proc => status_file.STATE \in {"idle", "skipped"}
             /\ trace # NewTrace => status_file = trace[Len(trace)].rec
    /\ \A i \in DOMAIN trace :
          /\ trace[i].kind = "final"
                => /\ i < Len(trace)
                   /\ trace[i + 1].kind = "write"
                   /\ trace[i + 1].rec.STATE = "idle"
          /\ trace[i].kind = "start"
                => /\ i < Len(trace)
                   /\ trace[i + 1].kind = "write"
                   /\ trace[i + 1].rec.STATE
                         = IF trace[i].spawned THEN "recording" ELSE "skipped"
          /\ trace[i].kind = "write"
                => i > 1 /\ trace[i - 1].kind \in {"final", "start"}

\* a skip has overwritten the status record while no child is held
C23_Witness ==
    /\ status_writable
    /\ ~proc
    /\ status_file.STATE = "skipped"
    /\ \E e \in StartEvents : ~e.spawned

\* C24: a callback never selects, as the output path of a new recording, the
\* path that the status record shows as the last recording, kept.
C24_KeptPathNotReused ==
    [][(/\ status_writable
        /\ status_file.STATE = "idle"
        /\ "LAST_RESULT" \in DOMAIN status_file
        /\ status_file.LAST_RESULT = "KEEP")
       => \A e \in StartEvents' :
             e.spawned => e.path # status_file.LAST_FILE
      ]_vars

====
